---- MODULE Spec2Model ----
(***************************************************************************)
(* Voice biometric verification service (src/src/index.js).                *)
(*                                                                         *)
(* The state is what the Express handlers keep in their stores: the        *)
(* VoiceProfile and AuditLog collections (MongoDB), the session:,          *)
(* challenge:, confirm: and blocked: keys (Redis), and the calls the call  *)
(* provider (Twilio) was asked to place.  Every handler is one action.     *)
(* The handler's response is not state: it is the resp field of the        *)
(* operator that computes the handler's result, and the properties about   *)
(* responses read it there.                                                *)
(*                                                                         *)
(* Every key of every store holds one phone number or one sessionId, and   *)
(* no handler reads a key of another phone number, so the model follows    *)
(* the requests of one phone number.                                       *)
(***************************************************************************)
EXTENDS Integers, Sequences, FiniteSets, TLC

VARIABLES
    profiles,    \* VoiceProfile collection, in insertion (natural) order
    sessions,    \* Redis session:<sessionId> keys: sessionId -> session JSON
    blocked,     \* Redis blocked:<phoneNumber> keys that are live
    challenges,  \* Redis challenge:<sessionId> keys that are live
    confirms,    \* Redis confirm:<phoneNumber> keys that are live
    auditLog,    \* AuditLog collection, in insertion order
    calls,       \* client.calls.create per sessionId: "placed" or "failed"
    nextSid,     \* the next value uuidv4() gives for a sessionId
    reqs         \* process-verification requests suspended at an await

vars == <<profiles, sessions, blocked, challenges, confirms, auditLog,
          calls, nextSid, reqs>>

----------------------------------------------------------------------------
(* Bounds of the model. *)

MaxSessions == 2
MaxProfiles == 2
MaxAttempts == 4
MaxAudit == 2

(* Inputs. *)

Phones == {"p1"}
SessionIds == 1..MaxSessions
TxTypes == {"TRANSFER"}
Amounts == {5000}
Hours == {12}

(* verifyVoicePrint returns Math.random() * 0.4 + 0.6; scores are kept in *)
(* hundredths, so 0.85 is 85.  The two scores on either side of the        *)
(* threshold stand for the two branches of the handler.                    *)
Scores == {85, 86}
PassScore == 85
LockoutAttempts == 3

----------------------------------------------------------------------------
(* Helpers. *)

\* a scorer whose amount tiers are an if / else-if, the higher tier first
calculateRiskScoreTiered(transactionType, amount, hour) ==
    LET s1 == IF amount > 10000 THEN 20 ELSE IF amount > 5000 THEN 30 ELSE 0
        s3 == IF transactionType = "INTERNATIONAL" THEN 25 ELSE 0
        s4 == IF transactionType = "CRYPTO" THEN 35 ELSE 0
        s5 == IF hour < 6 \/ hour > 22 THEN 15 ELSE 0
        score == s1 + s3 + s4 + s5
    IN  IF score < 100 THEN score ELSE 100

\* calculateRiskScore(transactionType, amount), with the hour new Date() gives
calculateRiskScore(transactionType, amount, hour) ==
    LET s1 == IF amount > 5000 THEN 30 ELSE 0
        s2 == IF amount > 10000 THEN 20 ELSE 0
        s3 == IF transactionType = "INTERNATIONAL" THEN 25 ELSE 0
        s4 == IF transactionType = "CRYPTO" THEN 35 ELSE 0
        s5 == IF hour < 6 \/ hour > 22 THEN 15 ELSE 0
        score == s1 + s2 + s3 + s4 + s5
    IN  IF score < 100 THEN score ELSE 100

\* riskScore > 70 ? 'HIGH' : riskScore > 40 ? 'MEDIUM' : 'LOW'
riskLevel(riskScore) ==
    IF riskScore > 70 THEN "HIGH" ELSE IF riskScore > 40 THEN "MEDIUM" ELSE "LOW"

\* VoiceProfile.findOne({ phoneNumber }): index of the first match, 0 for null
findOne(ps, phoneNumber) ==
    IF \E i \in 1..Len(ps) : ps[i].phoneNumber = phoneNumber
    THEN CHOOSE i \in 1..Len(ps) :
            /\ ps[i].phoneNumber = phoneNumber
            /\ \A j \in 1..(i - 1) : ps[j].phoneNumber # phoneNumber
    ELSE 0

\* redis.setex(`session:${sessionId}`, 3600, JSON.stringify(...))
setSession(ss, sessionId, data) ==
    [s \in (DOMAIN ss) \cup {sessionId} |-> IF s = sessionId THEN data ELSE ss[s]]

\* the outcome of client.calls.create for the call of sessionId
setCall(cs, sessionId, outcome) ==
    [s \in (DOMAIN cs) \cup {sessionId} |-> IF s = sessionId THEN outcome ELSE cs[s]]

\* new VoiceProfile({ userId: uuidv4(), phoneNumber, voicePrint, ... })
newProfile(ps, phoneNumber) ==
    [userId |-> Len(ps) + 1, phoneNumber |-> phoneNumber,
     verificationAttempts |-> 0, lastVerification |-> FALSE]

\* res.json(...) / res.status(500).json(...) / res.send(twiml.toString()):
\* status 0 stands for a request that is never answered
Response(status, body) == [status |-> status, body |-> body]

----------------------------------------------------------------------------
Init ==
    /\ profiles = <<>>
    /\ sessions = << >>
    /\ blocked = {}
    /\ challenges = {}
    /\ confirms = {}
    /\ auditLog = <<>>
    /\ calls = << >>
    /\ nextSid = 1
    /\ reqs = << >>

----------------------------------------------------------------------------
(* POST /biometric/initiate *)

InitiateFails == {"none", "findOne", "call", "setex"}

\* res.status(500).json({ error: 'Error en el sistema' })
SystemError == Response(500, <<"Error en el sistema">>)

\* a handler that stores the session before it places the call
initiateSessionFirst(phoneNumber, transactionType, amount, hour, fail) ==
    LET sessionId == nextSid
        data == IF findOne(profiles, phoneNumber) = 0
                THEN [phoneNumber |-> phoneNumber, type |-> "ENROLLMENT"]
                ELSE [phoneNumber |-> phoneNumber, type |-> "VERIFICATION",
                      riskScore |-> calculateRiskScore(transactionType, amount, hour),
                      transactionType |-> transactionType, amount |-> amount]
    IN  IF fail = "findOne" \/ fail = "setex"
        THEN [sessions |-> sessions, calls |-> calls, resp |-> SystemError]
        ELSE IF fail = "call"
        THEN [sessions |-> setSession(sessions, sessionId, data),
              calls |-> setCall(calls, sessionId, "failed"),
              resp |-> SystemError]
        ELSE [sessions |-> setSession(sessions, sessionId, data),
              calls |-> setCall(calls, sessionId, "placed"),
              resp |-> IF findOne(profiles, phoneNumber) = 0
                       THEN Response(200, <<"ENROLLMENT">>)
                       ELSE Response(200, <<"VERIFICATION",
                                riskLevel(calculateRiskScore(transactionType,
                                                             amount, hour))>>)]

\* a handler that scores the risk before it looks the number up and stores
\* the score in the session of either type
initiateScored(phoneNumber, transactionType, amount, hour, fail) ==
    LET sessionId == nextSid
        i == findOne(profiles, phoneNumber)
        riskScore == calculateRiskScore(transactionType, amount, hour)
        data == [phoneNumber |-> phoneNumber,
                 type |-> IF i = 0 THEN "ENROLLMENT" ELSE "VERIFICATION",
                 riskScore |-> riskScore,
                 transactionType |-> transactionType, amount |-> amount]
        ok == IF i = 0
              THEN Response(200, <<"ENROLLMENT">>)
              ELSE Response(200, <<"VERIFICATION", riskLevel(riskScore)>>)
    IN  IF fail = "findOne"
        THEN [sessions |-> sessions, calls |-> calls, resp |-> SystemError]
        ELSE IF fail = "call"
        THEN [sessions |-> sessions,
              calls |-> setCall(calls, sessionId, "failed"),
              resp |-> SystemError]
        ELSE IF fail = "setex"
        THEN [sessions |-> sessions,
              calls |-> setCall(calls, sessionId, "placed"),
              resp |-> SystemError]
        ELSE [sessions |-> setSession(sessions, sessionId, data),
              calls |-> setCall(calls, sessionId, "placed"),
              resp |-> ok]

\* The stores and the response after the handler has run with the given
\* request body, at the given hour, with the collaborator named by fail
\* (if any) rejecting.
initiate(phoneNumber, transactionType, amount, hour, fail) ==
    LET sessionId == nextSid
        i == findOne(profiles, phoneNumber)
        riskScore == calculateRiskScore(transactionType, amount, hour)
        data == IF i = 0
                THEN [phoneNumber |-> phoneNumber, type |-> "ENROLLMENT"]
                ELSE [phoneNumber |-> phoneNumber, type |-> "VERIFICATION",
                      riskScore |-> riskScore,
                      transactionType |-> transactionType, amount |-> amount]
        ok == IF i = 0
              THEN Response(200, <<"ENROLLMENT">>)
              ELSE Response(200, <<"VERIFICATION", riskLevel(riskScore)>>)
    IN  IF fail = "findOne"
        THEN [sessions |-> sessions, calls |-> calls, resp |-> SystemError]
        ELSE IF fail = "call"
        THEN [sessions |-> sessions,
              calls |-> setCall(calls, sessionId, "failed"),
              resp |-> SystemError]
        ELSE IF fail = "setex"
        THEN [sessions |-> sessions,
              calls |-> setCall(calls, sessionId, "placed"),
              resp |-> SystemError]
        ELSE [sessions |-> setSession(sessions, sessionId, data),
              calls |-> setCall(calls, sessionId, "placed"),
              resp |-> ok]

Initiate(phoneNumber, transactionType, amount, hour, fail) ==
    /\ nextSid <= MaxSessions
    /\ LET r == initiate(phoneNumber, transactionType, amount, hour, fail)
       IN  /\ sessions' = r.sessions
           /\ calls' = r.calls
    /\ nextSid' = nextSid + 1
    /\ UNCHANGED <<profiles, blocked, challenges, confirms, auditLog, reqs>>

----------------------------------------------------------------------------
(* POST /biometric/process-enrollment/:sessionId *)

EnrollmentFails == {"none", "get", "save", "setex", "audit"}

\* new AuditLog({ sessionId, phoneNumber, action: 'ENROLLMENT_SUCCESS', ... });
\* of an event the model keeps the phone number and the action
EnrollmentSuccess(sessionData) ==
    [phoneNumber |-> sessionData.phoneNumber, action |-> "ENROLLMENT_SUCCESS"]

\* a handler that, finding no session, enrols the number the recording
\* came from (req.body.From) instead of giving up
processEnrollmentFromCaller(sessionId, fail) ==
    LET error == Response(200, <<"ERROR">>)
        unchanged == [profiles |-> profiles, confirms |-> confirms,
                      auditLog |-> auditLog]
        sessionData == IF sessionId \in DOMAIN sessions
                       THEN sessions[sessionId]
                       ELSE [phoneNumber |-> "p1"]
        saved == Append(profiles, newProfile(profiles, sessionData.phoneNumber))
        confirmed == confirms \cup {sessionData.phoneNumber}
    IN  IF fail = "get" \/ fail = "save"
        THEN unchanged @@ [resp |-> error]
        ELSE IF fail = "setex"
        THEN [profiles |-> saved, confirms |-> confirms,
              auditLog |-> auditLog, resp |-> error]
        ELSE IF fail = "audit"
        THEN [profiles |-> saved, confirms |-> confirmed,
              auditLog |-> auditLog,
              resp |-> Response(200, <<"CREATED", "ERROR">>)]
        ELSE [profiles |-> saved, confirms |-> confirmed,
              auditLog |-> Append(auditLog, EnrollmentSuccess(sessionData)),
              resp |-> Response(200, <<"CREATED">>)]

\* JSON.parse(await redis.get(...)) is null for a key that is not there, and
\* reading sessionData.phoneNumber then throws into the catch block.
processEnrollment(sessionId, fail) ==
    LET error == Response(200, <<"ERROR">>)
        unchanged == [profiles |-> profiles, confirms |-> confirms,
                      auditLog |-> auditLog]
    IN  IF fail = "get" \/ sessionId \notin DOMAIN sessions
        THEN unchanged @@ [resp |-> error]
        ELSE
        LET sessionData == sessions[sessionId]
            profile == newProfile(profiles, sessionData.phoneNumber)
            saved == Append(profiles, profile)
            confirmed == confirms \cup {sessionData.phoneNumber}
        IN  IF fail = "save"
            THEN unchanged @@ [resp |-> error]
            ELSE IF fail = "setex"
            THEN [profiles |-> saved, confirms |-> confirms,
                  auditLog |-> auditLog, resp |-> error]
            ELSE IF fail = "audit"
            THEN [profiles |-> saved, confirms |-> confirmed,
                  auditLog |-> auditLog,
                  resp |-> Response(200, <<"CREATED", "ERROR">>)]
            ELSE [profiles |-> saved, confirms |-> confirmed,
                  auditLog |-> Append(auditLog, EnrollmentSuccess(sessionData)),
                  resp |-> Response(200, <<"CREATED">>)]

\* The handler calls the collaborator named by fail, which rejects
EnrollmentRejects(sessionId, fail) ==
    \/ fail = "get"
    \/ fail \in {"save", "setex", "audit"} /\ sessionId \in DOMAIN sessions

ProcessEnrollment(sessionId, fail) ==
    /\ fail = "none" \/ EnrollmentRejects(sessionId, fail)
    /\ LET r == processEnrollment(sessionId, fail)
       IN  /\ Len(r.profiles) <= MaxProfiles
           /\ Len(r.auditLog) <= MaxAudit
           /\ profiles' = r.profiles
           /\ confirms' = r.confirms
           /\ auditLog' = r.auditLog
    /\ UNCHANGED <<sessions, blocked, challenges, calls, nextSid, reqs>>

----------------------------------------------------------------------------
(* POST /biometric/verify/:sessionId *)

VerifyFails == {"none", "setex"}

\* The handler has no try/catch: when redis.setex rejects, the async
\* handler's promise rejects and no response is sent.
verify(sessionId, fail) ==
    IF fail = "setex"
    THEN [challenges |-> challenges, resp |-> Response(0, <<"GREETING">>)]
    ELSE [challenges |-> challenges \cup {sessionId},
          resp |-> Response(200, <<"GREETING", "CHALLENGE", "RECORD">>)]

Verify(sessionId, fail) ==
    /\ challenges' = verify(sessionId, fail).challenges
    /\ UNCHANGED <<profiles, sessions, blocked, confirms, auditLog, calls,
                   nextSid, reqs>>

----------------------------------------------------------------------------
(* POST /biometric/process-verification/:sessionId *)

VerificationFails == {"none", "get", "findOne", "save", "sms", "audit", "setex"}

\* verificationScore > 0.85
passes(verificationScore) == verificationScore > PassScore

\* a lockout that starts one failure late
locksLate(verificationAttempts) == verificationAttempts > LockoutAttempts

\* a lockout written at the third failure only
locksOnce(verificationAttempts) == verificationAttempts = LockoutAttempts

\* profile.verificationAttempts >= 3
locks(verificationAttempts) == verificationAttempts >= LockoutAttempts

\* a success that records the time and leaves the failure count
updatedNoReset(profile, verificationScore) ==
    IF verificationScore > PassScore
    THEN [profile EXCEPT !.lastVerification = TRUE]
    ELSE [profile EXCEPT !.verificationAttempts = @ + 1]

\* The document profile.save() writes: the handler's copy of the profile,
\* whose verificationAttempts was read by findOne, after the branch taken.
updated(profile, verificationScore) ==
    IF passes(verificationScore)
    THEN [profile EXCEPT !.lastVerification = TRUE, !.verificationAttempts = 0]
    ELSE [profile EXCEPT !.verificationAttempts = @ + 1]

\* profile.save() of an existing document: the modified paths are $set on
\* the stored document with the same userId
save(ps, profile) ==
    [i \in 1..Len(ps) |->
        IF ps[i].userId = profile.userId
        THEN [ps[i] EXCEPT !.verificationAttempts = profile.verificationAttempts,
                           !.lastVerification = profile.lastVerification]
        ELSE ps[i]]

\* new AuditLog({ sessionId, phoneNumber, action: 'VERIFICATION_SUCCESS', ... })
VerificationSuccess(sessionData) ==
    [phoneNumber |-> sessionData.phoneNumber, action |-> "VERIFICATION_SUCCESS"]

\* a success that also lifts the lockout of the number
afterSaveUnblocks(bl, log, sessionData, doc, verificationScore, fail) ==
    LET out(b, a, body) ==
            [blocked |-> b, auditLog |-> a, resp |-> Response(200, body)]
    IN  IF verificationScore > PassScore
        THEN IF fail = "sms" \/ fail = "audit"
             THEN out(bl \ {sessionData.phoneNumber}, log,
                      <<"SUCCESS", "ERROR">>)
             ELSE out(bl \ {sessionData.phoneNumber},
                      Append(log, VerificationSuccess(sessionData)),
                      <<"SUCCESS">>)
        ELSE IF doc.verificationAttempts >= LockoutAttempts
             THEN IF fail = "setex"
                  THEN out(bl, log, <<"FAILURE", "ERROR">>)
                  ELSE out(bl \cup {sessionData.phoneNumber}, log,
                           <<"FAILURE", "LOCKED">>)
             ELSE out(bl, log, <<"FAILURE">>)

\* What follows profile.save() in either branch: the SMS (a message handed
\* to the provider, which the model does not keep) and the audit record on
\* success, the blocked: key on the third failure or later.  doc is the
\* handler's copy of the profile as saved; bl and log are the stores.
afterSave(bl, log, sessionData, doc, verificationScore, fail) ==
    LET out(b, a, body) ==
            [blocked |-> b, auditLog |-> a, resp |-> Response(200, body)]
    IN  IF passes(verificationScore)
        THEN IF fail = "sms" \/ fail = "audit"
             THEN out(bl, log, <<"SUCCESS", "ERROR">>)
             ELSE out(bl, Append(log, VerificationSuccess(sessionData)),
                      <<"SUCCESS">>)
        ELSE IF locks(doc.verificationAttempts)
             THEN IF fail = "setex"
                  THEN out(bl, log, <<"FAILURE", "ERROR">>)
                  ELSE out(bl \cup {sessionData.phoneNumber}, log,
                           <<"FAILURE", "LOCKED">>)
             ELSE out(bl, log, <<"FAILURE">>)

processVerification(sessionId, verificationScore, fail) ==
    LET error == Response(200, <<"ERROR">>)
        unchanged == [profiles |-> profiles, blocked |-> blocked,
                      auditLog |-> auditLog]
    IN  IF fail = "get" \/ sessionId \notin DOMAIN sessions
        THEN unchanged @@ [resp |-> error]
        ELSE
        LET sessionData == sessions[sessionId]
            i == findOne(profiles, sessionData.phoneNumber)
        IN  IF fail = "findOne" \/ i = 0 \/ fail = "save"
            THEN unchanged @@ [resp |-> error]
            ELSE
            LET doc == updated(profiles[i], verificationScore)
            IN  [profiles |-> save(profiles, doc)]
                @@ afterSave(blocked, auditLog, sessionData, doc,
                             verificationScore, fail)

\* The failure count findOne gives for the phone number of a stored session
AttemptsOf(ps, sessionId) ==
    ps[findOne(ps, sessions[sessionId].phoneNumber)].verificationAttempts

\* The handler gets as far as a successful profile.save(): the session and
\* the profile are found and no store rejects up to there
Saves(sessionId, fail) ==
    /\ sessionId \in DOMAIN sessions
    /\ findOne(profiles, sessions[sessionId].phoneNumber) # 0
    /\ fail \notin {"get", "findOne", "save"}

\* The handler calls the collaborator named by fail, which rejects
Rejects(sessionId, verificationScore, fail) ==
    \/ fail = "get"
    \/ fail = "findOne" /\ sessionId \in DOMAIN sessions
    \/ fail = "save" /\ Saves(sessionId, "none")
    \/ /\ fail \in {"sms", "audit"}
       /\ Saves(sessionId, "none")
       /\ passes(verificationScore)
    \/ /\ fail = "setex"
       /\ Saves(sessionId, "none")
       /\ ~passes(verificationScore)
       /\ locks(AttemptsOf(profiles, sessionId) + 1)

ProcessVerification(sessionId, verificationScore, fail) ==
    /\ fail = "none" \/ Rejects(sessionId, verificationScore, fail)
    /\ LET r == processVerification(sessionId, verificationScore, fail)
       IN  /\ \A i \in 1..Len(r.profiles) :
                 r.profiles[i].verificationAttempts <= MaxAttempts
           /\ Len(r.auditLog) <= MaxAudit
           /\ profiles' = r.profiles
           /\ blocked' = r.blocked
           /\ auditLog' = r.auditLog
    /\ UNCHANGED <<sessions, challenges, confirms, calls, nextSid, reqs>>

----------------------------------------------------------------------------
(* Redis expiry: a key set with setex disappears when its TTL has elapsed. *)

ExpireSession(sessionId) ==
    /\ sessionId \in DOMAIN sessions
    /\ sessions' = [s \in (DOMAIN sessions) \ {sessionId} |-> sessions[s]]
    /\ UNCHANGED <<profiles, blocked, challenges, confirms, auditLog, calls,
                   nextSid, reqs>>

ExpireBlocked(phoneNumber) ==
    /\ phoneNumber \in blocked
    /\ blocked' = blocked \ {phoneNumber}
    /\ UNCHANGED <<profiles, sessions, challenges, confirms, auditLog, calls,
                   nextSid, reqs>>

ExpireChallenge(sessionId) ==
    /\ sessionId \in challenges
    /\ challenges' = challenges \ {sessionId}
    /\ UNCHANGED <<profiles, sessions, blocked, confirms, auditLog, calls,
                   nextSid, reqs>>

ExpireConfirm(phoneNumber) ==
    /\ phoneNumber \in confirms
    /\ confirms' = confirms \ {phoneNumber}
    /\ UNCHANGED <<profiles, sessions, blocked, challenges, auditLog, calls,
                   nextSid, reqs>>

----------------------------------------------------------------------------
(* The service: requests and callbacks arrive in any order, keys expire.   *)
(* The challenge: and confirm: keys are read by no handler; their expiry   *)
(* and the handler that only writes challenge: are left to SpecKeys.       *)

Next ==
    \/ \E p \in Phones, t \in TxTypes, a \in Amounts, h \in Hours,
          f \in InitiateFails : Initiate(p, t, a, h, f)
    \/ \E s \in SessionIds, f \in EnrollmentFails : ProcessEnrollment(s, f)
    \/ \E s \in SessionIds, v \in Scores, f \in VerificationFails :
          ProcessVerification(s, v, f)
    \/ \E s \in SessionIds : ExpireSession(s)
    \/ \E p \in Phones : ExpireBlocked(p)

Spec == Init /\ [][Next]_vars

(* The handlers that write the challenge: and confirm: keys, and the       *)
(* expiry of every key.                                                    *)
NextKeys ==
    \/ \E p \in Phones, t \in TxTypes, a \in Amounts, h \in Hours,
          f \in InitiateFails : Initiate(p, t, a, h, f)
    \/ \E s \in SessionIds, f \in EnrollmentFails : ProcessEnrollment(s, f)
    \/ \E s \in SessionIds, f \in VerifyFails : Verify(s, f)
    \/ \E s \in SessionIds : ExpireSession(s)
    \/ \E s \in SessionIds : ExpireChallenge(s)
    \/ \E p \in Phones : ExpireConfirm(p)

SpecKeys == Init /\ [][NextKeys]_vars

----------------------------------------------------------------------------
(* Two process-verification requests for one phone number, on different    *)
(* sessions, in flight together.  A handler runs to its next await, where  *)
(* the other may run: after redis.get, after findOne, after profile.save() *)
(* and after each call that follows the save.  Each keeps its own copy of  *)
(* the profile document from findOne to save.                              *)

RaceRequests == {1, 2}

\* A state of Spec: the number enrolled through session 1, a verification
\* was initiated as session 2, and two failures were counted.
InitRace ==
    /\ profiles = <<[userId |-> 1, phoneNumber |-> "p1",
                     verificationAttempts |-> LockoutAttempts - 1,
                     lastVerification |-> FALSE]>>
    /\ sessions = <<[phoneNumber |-> "p1", type |-> "ENROLLMENT"],
                    [phoneNumber |-> "p1", type |-> "VERIFICATION",
                     riskScore |-> 0, transactionType |-> "TRANSFER",
                     amount |-> 5000]>>
    /\ blocked = {}
    /\ challenges = {}
    /\ confirms = {"p1"}
    /\ auditLog = <<[phoneNumber |-> "p1", action |-> "ENROLLMENT_SUCCESS"]>>
    /\ calls = <<"placed", "placed">>
    /\ nextSid = 3
    /\ reqs = << >>

setReq(r, req) ==
    [q \in (DOMAIN reqs) \cup {r} |-> IF q = r THEN req ELSE reqs[q]]

\* const sessionData = JSON.parse(await redis.get(`session:${sessionId}`))
RaceGet(r) ==
    /\ r \notin DOMAIN reqs
    /\ r \in DOMAIN sessions
    /\ reqs' = setReq(r, [pc |-> "findOne", sessionData |-> sessions[r]])
    /\ UNCHANGED <<profiles, sessions, blocked, challenges, confirms,
                   auditLog, calls, nextSid>>

\* const profile = await VoiceProfile.findOne(...), then the score and the
\* branch, up to the call of profile.save()
RaceFindOne(r, verificationScore) ==
    /\ r \in DOMAIN reqs
    /\ reqs[r].pc = "findOne"
    /\ LET i == findOne(profiles, reqs[r].sessionData.phoneNumber)
       IN  /\ i # 0
           /\ reqs' = setReq(r, [pc |-> "save",
                                 sessionData |-> reqs[r].sessionData,
                                 verificationScore |-> verificationScore,
                                 profile |-> updated(profiles[i],
                                                     verificationScore)])
    /\ UNCHANGED <<profiles, sessions, blocked, challenges, confirms,
                   auditLog, calls, nextSid>>

\* await profile.save(); on failure the handler then either goes on to the
\* blocked: key or, below three failures, has nothing left to await
RaceSave(r) ==
    /\ r \in DOMAIN reqs
    /\ reqs[r].pc = "save"
    /\ profiles' = save(profiles, reqs[r].profile)
    /\ reqs' = setReq(r, [reqs[r] EXCEPT !.pc =
                  IF passes(reqs[r].verificationScore) THEN "sms"
                  ELSE IF locks(reqs[r].profile.verificationAttempts)
                  THEN "setex" ELSE "done"])
    /\ UNCHANGED <<sessions, blocked, challenges, confirms, auditLog, calls,
                   nextSid>>

\* await client.messages.create(...)
RaceSms(r) ==
    /\ r \in DOMAIN reqs
    /\ reqs[r].pc = "sms"
    /\ reqs' = setReq(r, [reqs[r] EXCEPT !.pc = "audit"])
    /\ UNCHANGED <<profiles, sessions, blocked, challenges, confirms,
                   auditLog, calls, nextSid>>

\* await new AuditLog({ ..., action: 'VERIFICATION_SUCCESS', ... }).save()
RaceAudit(r) ==
    /\ r \in DOMAIN reqs
    /\ reqs[r].pc = "audit"
    /\ auditLog' = Append(auditLog, VerificationSuccess(reqs[r].sessionData))
    /\ reqs' = setReq(r, [reqs[r] EXCEPT !.pc = "done"])
    /\ UNCHANGED <<profiles, sessions, blocked, challenges, confirms, calls,
                   nextSid>>

\* await redis.setex(`blocked:${sessionData.phoneNumber}`, 3600, 'true')
RaceSetex(r) ==
    /\ r \in DOMAIN reqs
    /\ reqs[r].pc = "setex"
    /\ blocked' = blocked \cup {reqs[r].sessionData.phoneNumber}
    /\ reqs' = setReq(r, [reqs[r] EXCEPT !.pc = "done"])
    /\ UNCHANGED <<profiles, sessions, challenges, confirms, auditLog, calls,
                   nextSid>>

NextRace ==
    \/ \E r \in RaceRequests : RaceGet(r)
    \/ \E r \in RaceRequests, v \in Scores : RaceFindOne(r, v)
    \/ \E r \in RaceRequests : RaceSave(r)
    \/ \E r \in RaceRequests : RaceSms(r)
    \/ \E r \in RaceRequests : RaceAudit(r)
    \/ \E r \in RaceRequests : RaceSetex(r)

SpecRace == InitRace /\ [][NextRace]_vars

----------------------------------------------------------------------------
(* The risk scorer at work: initiate requests of an enrolled number, with  *)
(* transaction types and amounts on both sides of each test of             *)
(* calculateRiskScore and hours on both sides of the night test.  A        *)
(* request is kept from the score to the response, with the body and the   *)
(* hour it was scored at.                                                  *)

RiskTypes == {"TRANSFER", "INTERNATIONAL", "CRYPTO"}
RiskAmounts == {0, 5000, 5001, 10000, 10001}
RiskHours == {5, 6, 22, 23}

\* A state of Spec: the number enrolled through session 1, which expired.
InitRisk ==
    /\ profiles = <<[userId |-> 1, phoneNumber |-> "p1",
                     verificationAttempts |-> 0, lastVerification |-> FALSE]>>
    /\ sessions = << >>
    /\ blocked = {}
    /\ challenges = {}
    /\ confirms = {"p1"}
    /\ auditLog = <<[phoneNumber |-> "p1", action |-> "ENROLLMENT_SUCCESS"]>>
    /\ calls = <<"placed">>
    /\ nextSid = 2
    /\ reqs = << >>

\* findOne has found the profile: the handler scores the risk and asks for
\* the call, const call = await client.calls.create(...)
InitiateScore(r, phoneNumber, transactionType, amount, hour) ==
    /\ r \notin DOMAIN reqs
    /\ findOne(profiles, phoneNumber) # 0
    /\ reqs' = setReq(r, [pc |-> "call", phoneNumber |-> phoneNumber,
                          transactionType |-> transactionType,
                          amount |-> amount, hour |-> hour,
                          riskScore |-> calculateRiskScore(transactionType,
                                                           amount, hour)])
    /\ UNCHANGED <<profiles, sessions, blocked, challenges, confirms,
                   auditLog, calls, nextSid>>

\* the call is placed: the session is stored with the score and the
\* response carries the risk level
InitiateRespond(r) ==
    /\ r \in DOMAIN reqs
    /\ reqs[r].pc = "call"
    /\ calls' = setCall(calls, nextSid, "placed")
    /\ sessions' = setSession(sessions, nextSid,
                      [phoneNumber |-> reqs[r].phoneNumber,
                       type |-> "VERIFICATION",
                       riskScore |-> reqs[r].riskScore,
                       transactionType |-> reqs[r].transactionType,
                       amount |-> reqs[r].amount])
    /\ nextSid' = nextSid + 1
    /\ reqs' = setReq(r, [pc |-> "done",
                          riskLevel |-> riskLevel(reqs[r].riskScore)]
                         @@ reqs[r])
    /\ UNCHANGED <<profiles, blocked, challenges, confirms, auditLog>>

NextRisk ==
    \/ \E r \in RaceRequests, p \in Phones, t \in RiskTypes,
          a \in RiskAmounts, h \in RiskHours : InitiateScore(r, p, t, a, h)
    \/ \E r \in RaceRequests : InitiateRespond(r)

SpecRisk == InitRisk /\ [][NextRisk]_vars

----------------------------------------------------------------------------
(* What the properties below read from a state or a step. *)

\* The profiles stored for a phone number
ProfilesOf(phoneNumber) ==
    {i \in 1..Len(profiles) : profiles[i].phoneNumber = phoneNumber}

\* what the response says, as a set
Says(r) == {r.resp.body[k] : k \in DOMAIN r.resp.body}

\* the actions of the audit events a step appends
Appended == [k \in 1..(Len(auditLog') - Len(auditLog)) |->
                auditLog'[Len(auditLog) + k].action]

----------------------------------------------------------------------------
(* C1: whenever a profile exists for a phone number and its lockout record *)
(* is active, initiate for that number answers LockedOut, places no call   *)
(* and writes no session.                                                  *)
C1_LockedOutBeforeCall ==
    [][\A p \in Phones, t \in TxTypes, a \in Amounts, h \in Hours :
          (/\ findOne(profiles, p) # 0
           /\ p \in blocked
           /\ Initiate(p, t, a, h, "none"))
          => /\ calls' = calls
             /\ sessions' = sessions
             /\ "LockedOut" \in Says(initiate(p, t, a, h, "none"))]_vars

(* C2: a sessionId creates at most one profile, however often              *)
(* process-enrollment is called with it.  Profiles are created by          *)
(* process-enrollment alone, each through the sessionId of a stored        *)
(* session, and a session is stored only after its call was placed: so     *)
(* there are never more profiles than sessionIds whose call was placed.    *)
C2_OneProfilePerSession ==
    Len(profiles) <= Cardinality({s \in DOMAIN calls : calls[s] = "placed"})

(* C3: at most one profile exists per phone number.                        *)
C3_OneProfilePerPhone ==
    \A p \in Phones : Cardinality(ProfilesOf(p)) <= 1

(* C4 to C6 and C9 are stated of the handler's result in every reachable   *)
(* state: the result is what the handler's step assigns.                   *)

C5_AsStated ==
    \A s \in SessionIds, v \in Scores :
        (Saves(s, "none") /\ ~passes(v))
        => LET r == processVerification(s, v, "none")
           IN  "LOCKED" \in Says(r)
                  <=> AttemptsOf(r.profiles, s) = LockoutAttempts

(* C5, amended: a failed process-verification sets (or re-sets) the        *)
(* lockout record if and only if it brings the failure count to 3 or more. *)
C5_LocksFromThree ==
    \A s \in SessionIds, v \in Scores :
        (Saves(s, "none") /\ ~passes(v))
        => LET p == sessions[s].phoneNumber
               r == processVerification(s, v, "none")
           IN  /\ "LOCKED" \in Says(r)
                     <=> AttemptsOf(r.profiles, s) >= LockoutAttempts
               /\ "LOCKED" \in Says(r) => p \in r.blocked
               /\ "LOCKED" \notin Says(r) => r.blocked = blocked

\* a fourth failure has been counted and the number is locked
C5_Witness ==
    \E i \in 1..Len(profiles) :
        /\ profiles[i].verificationAttempts > LockoutAttempts
        /\ profiles[i].phoneNumber \in blocked

(* C6: a process-verification whose score is above 0.85, and whose profile *)
(* write the store accepts, leaves the failure count at 0 whatever it was, *)
(* also when the SMS or the audit write that follows is rejected.          *)
C6_SuccessResets ==
    \A s \in SessionIds, v \in Scores, f \in VerificationFails :
        (Saves(s, f) /\ passes(v))
        => AttemptsOf(processVerification(s, v, f).profiles, s) = 0

\* the count had reached 3 (the number is locked) and a success reset it
C6_Witness ==
    \E i \in 1..Len(profiles) :
        /\ profiles[i].verificationAttempts = 0
        /\ profiles[i].lastVerification
        /\ profiles[i].phoneNumber \in blocked

(* C7: a process-verification that reaches its decision appends exactly    *)
(* one audit event, VERIFICATION_SUCCESS or VERIFICATION_FAILURE, and      *)
(* VERIFICATION_FAILURE then LOCKOUT_TRIGGERED when it triggers lockout.   *)
C7_OneAuditEventPerOutcome ==
    [][\A s \in SessionIds, v \in Scores :
          (Saves(s, "none") /\ ProcessVerification(s, v, "none"))
          => LET r == processVerification(s, v, "none")
             IN  Appended =
                    IF passes(v) THEN <<"VERIFICATION_SUCCESS">>
                    ELSE IF "LOCKED" \in Says(r)
                    THEN <<"VERIFICATION_FAILURE", "LOCKOUT_TRIGGERED">>
                    ELSE <<"VERIFICATION_FAILURE">>]_vars

(* C8: when a store or provider rejects during process-verification, one   *)
(* SYSTEM_ERROR audit event is appended and the caller hears the generic   *)
(* failure.                                                                *)
(* A rejected request may leave every store as it was, so this is stated   *)
(* of the handler's result in each reachable state, not of the step.       *)
C8_SystemErrorAudited ==
    \A s \in SessionIds, v \in Scores, f \in VerificationFails :
        Rejects(s, v, f)
        => LET r == processVerification(s, v, f)
           IN  /\ Len(r.auditLog) = Len(auditLog) + 1
               /\ r.auditLog[Len(r.auditLog)].action = "SYSTEM_ERROR"
               /\ "ERROR" \in Says(r)

(* C9: when client.calls.create rejects in initiate, for an unknown or a   *)
(* known number, no session is stored under the sessionId of the request   *)
(* (nor under any other) and the caller gets the generic system error.     *)
C9_NoSessionWithoutCall ==
    \A p \in Phones, t \in TxTypes, a \in Amounts, h \in Hours :
        LET r == initiate(p, t, a, h, "call")
        IN  /\ nextSid \notin DOMAIN r.sessions
            /\ r.sessions = sessions
            /\ r.resp = SystemError

\* the call of a request was rejected, while an earlier request has its
\* session stored
C9_Witness ==
    \E s \in DOMAIN calls :
        /\ calls[s] = "failed"
        /\ s \notin DOMAIN sessions
        /\ \E e \in DOMAIN sessions : e < s

(* C10: when two process-verification requests for one phone number        *)
(* interleave at their store reads and writes, the failure count and the   *)
(* lockout state they leave are those of the two requests run one after    *)
(* the other, in one of the two orders.                                    *)
RaceDone == \A r \in RaceRequests : r \in DOMAIN reqs /\ reqs[r].pc = "done"

\* the profile and the lockout state after one request run alone on st
SerialStep(st, verificationScore) ==
    LET doc == updated(st.profile, verificationScore)
    IN  [profile |-> doc,
         locked |-> \/ st.locked
                    \/ ~passes(verificationScore)
                       /\ locks(doc.verificationAttempts)]

\* the state the race started from
RaceStart ==
    [profile |-> [userId |-> 1, phoneNumber |-> "p1",
                  verificationAttempts |-> LockoutAttempts - 1,
                  lastVerification |-> FALSE],
     locked |-> FALSE]

C10_RaceIsSerial ==
    RaceDone =>
        \E first \in RaceRequests :
            LET second == CHOOSE r \in RaceRequests : r # first
                st == SerialStep(SerialStep(RaceStart,
                                            reqs[first].verificationScore),
                                 reqs[second].verificationScore)
            IN  /\ profiles[1].verificationAttempts
                      = st.profile.verificationAttempts
                /\ ("p1" \in blocked) = st.locked

(* C11: process-enrollment or process-verification called with a sessionId *)
(* that has no session: key (never stored, or expired) answers with the    *)
(* error message and leaves every store as it was: no profile created or   *)
(* changed, no failure count changed, no blocked: key, no confirm: key and *)
(* no audit record written.                                                *)
C11_MissingSessionChangesNothing ==
    \A s \in SessionIds \ DOMAIN sessions, v \in Scores :
        LET e == processEnrollment(s, "none")
            r == processVerification(s, v, "none")
        IN  /\ e.profiles = profiles
            /\ e.confirms = confirms
            /\ e.auditLog = auditLog
            /\ e.resp = Response(200, <<"ERROR">>)
            /\ r.profiles = profiles
            /\ r.blocked = blocked
            /\ r.auditLog = auditLog
            /\ r.resp = Response(200, <<"ERROR">>)

\* the session of a placed call is gone while a profile with a counted
\* failure, a confirmation code and an audit record are in the stores
C11_Witness ==
    /\ \E s \in DOMAIN calls : calls[s] = "placed" /\ s \notin DOMAIN sessions
    /\ \E i \in 1..Len(profiles) : profiles[i].verificationAttempts > 0
    /\ confirms # {}
    /\ auditLog # <<>>

(* C12: verify stores a challenge: key for a sessionId only when that      *)
(* sessionId has a live session of type VERIFICATION; for an unknown, an   *)
(* expired or an ENROLLMENT sessionId it stores none.                      *)
C12_ChallengeOnlyForVerification ==
    \A s \in SessionIds :
        s \in verify(s, "none").challenges \ challenges
        => /\ s \in DOMAIN sessions
           /\ sessions[s].type = "VERIFICATION"

(* C13: a blocked: key that is set stays set until its TTL elapses: no     *)
(* handler removes it, a process-verification that succeeds for the number *)
(* included.  Every step that takes a number out of blocked is the expiry  *)
(* of its key.                                                             *)
C13_LockoutStaysUntilExpiry ==
    [][\A p \in Phones :
          (p \in blocked /\ p \notin blocked') => ExpireBlocked(p)]_vars

\* the number is locked and a later verification of it succeeded and was
\* audited: the lockout record is still there
C13_Witness ==
    \E i \in 1..Len(profiles) :
        /\ profiles[i].phoneNumber \in blocked
        /\ profiles[i].lastVerification
        /\ profiles[i].verificationAttempts < LockoutAttempts
        /\ \E k \in 1..Len(auditLog) :
              auditLog[k] = [phoneNumber |-> profiles[i].phoneNumber,
                             action |-> "VERIFICATION_SUCCESS"]

(* C14: initiate for a phone number that has no profile stores a session   *)
(* of type ENROLLMENT that holds the phone number and the type and no risk *)
(* score, and answers that enrollment has started; what it stores and      *)
(* answers is fixed by the phone number and the new sessionId alone, so    *)
(* neither a failure count nor a blocked: key has a part in it.  When a    *)
(* collaborator rejects, it stores no session of any type.                 *)
C14_UnknownNumberEnrolls ==
    \A p \in Phones, t \in TxTypes, a \in Amounts, h \in Hours :
        ProfilesOf(p) = {}
        => /\ LET r == initiate(p, t, a, h, "none")
              IN  /\ r.sessions = setSession(sessions, nextSid,
                                     [phoneNumber |-> p, type |-> "ENROLLMENT"])
                  /\ DOMAIN r.sessions[nextSid] = {"phoneNumber", "type"}
                  /\ r.calls = setCall(calls, nextSid, "placed")
                  /\ r.resp = Response(200, <<"ENROLLMENT">>)
           /\ \A f \in InitiateFails \ {"none"} :
                 initiate(p, t, a, h, f).sessions = sessions

\* an unknown number has asked twice: both sessions are ENROLLMENT sessions
\* without a risk score
C14_Witness ==
    /\ profiles = <<>>
    /\ DOMAIN sessions = {1, 2}
    /\ \A s \in DOMAIN sessions :
          sessions[s] = [phoneNumber |-> "p1", type |-> "ENROLLMENT"]

(* C15: initiate for a phone number that has a profile and no active       *)
(* lockout, with transactionType TRANSFER and amount 5000, stores a        *)
(* VERIFICATION session whose risk score is 30 and answers with the risk   *)
(* level MEDIUM.                                                           *)
C15_Transfer5000IsMedium30 ==
    \A p \in Phones, h \in Hours :
        (ProfilesOf(p) # {} /\ p \notin blocked)
        => LET r == initiate(p, "TRANSFER", 5000, h, "none")
           IN  /\ r.sessions[nextSid].type = "VERIFICATION"
               /\ r.sessions[nextSid].riskScore = 30
               /\ r.resp = Response(200, <<"VERIFICATION", "MEDIUM">>)

(* C16: every risk score is an integer from 0 to 100; of two requests      *)
(* scored at the same hour, the score of the one with the larger amount    *)
(* (same type) is not smaller, and the score of the INTERNATIONAL or       *)
(* CRYPTO one is not smaller than that of the unflagged one (same amount). *)
C16_RiskScoreBoundedMonotone ==
    /\ \A r \in DOMAIN reqs : reqs[r].riskScore \in 0..100
    /\ \A q, r \in DOMAIN reqs :
          (/\ reqs[q].transactionType = reqs[r].transactionType
           /\ reqs[q].hour = reqs[r].hour
           /\ reqs[q].amount <= reqs[r].amount)
          => reqs[q].riskScore <= reqs[r].riskScore
    /\ \A q, r \in DOMAIN reqs :
          (/\ reqs[q].amount = reqs[r].amount
           /\ reqs[q].hour = reqs[r].hour
           /\ reqs[q].transactionType \notin {"INTERNATIONAL", "CRYPTO"}
           /\ reqs[r].transactionType \in {"INTERNATIONAL", "CRYPTO"})
          => reqs[q].riskScore <= reqs[r].riskScore

\* two CRYPTO requests at 23 h were scored: 5001 gives 80, 10001 gives the
\* full 100
C16_Witness ==
    \E q, r \in DOMAIN reqs :
        /\ reqs[q].transactionType = "CRYPTO" /\ reqs[r].transactionType = "CRYPTO"
        /\ reqs[q].hour = 23 /\ reqs[r].hour = 23
        /\ reqs[q].amount = 5001 /\ reqs[q].riskScore = 80
        /\ reqs[r].amount = 10001 /\ reqs[r].riskScore = 100

(* C17: every request to initiate, verify, process-enrollment and          *)
(* process-verification is answered, also when a collaborator the handler  *)
(* calls rejects: no request is left without a response.                   *)
C17_EveryRequestAnswered ==
    /\ \A p \in Phones, t \in TxTypes, a \in Amounts, h \in Hours,
          f \in InitiateFails : initiate(p, t, a, h, f).resp.status # 0
    /\ \A s \in SessionIds, f \in VerifyFails : verify(s, f).resp.status # 0
    /\ \A s \in SessionIds, f \in EnrollmentFails :
          processEnrollment(s, f).resp.status # 0
    /\ \A s \in SessionIds, v \in Scores, f \in VerificationFails :
          processVerification(s, v, f).resp.status # 0

(* C18: process-enrollment creates a profile only through a session of     *)
(* type ENROLLMENT, and process-verification changes a failure count, a    *)
(* lastVerification or the blocked: keys only through a session of type    *)
(* VERIFICATION.                                                           *)
C18_CompletionOfOwnKind ==
    \A s \in DOMAIN sessions, v \in Scores :
        /\ sessions[s].type # "ENROLLMENT"
              => processEnrollment(s, "none").profiles = profiles
        /\ sessions[s].type # "VERIFICATION"
              => LET r == processVerification(s, v, "none")
                 IN  r.profiles = profiles /\ r.blocked = blocked

(* C19: whenever a blocked: key is live for a phone number, the failure    *)
(* count of that number's profile is at least 3.                           *)
C19_LockedMeansThreeFailures ==
    \A p \in blocked :
        /\ findOne(profiles, p) # 0
        /\ profiles[findOne(profiles, p)].verificationAttempts >= LockoutAttempts

(* C20: one process-verification says one outcome: never the success (with *)
(* the failure count reset) and the system error in the same response,     *)
(* whichever collaborator rejects after the profile was saved.             *)
C20_OneOutcomePerCall ==
    \A s \in SessionIds, v \in Scores, f \in VerificationFails :
        (f = "none" \/ Rejects(s, v, f))
        => LET r == processVerification(s, v, f)
           IN  ~({"SUCCESS", "ERROR"} \subseteq Says(r))

====
